---- MODULE Spec2Model ----
(***************************************************************************)
(* A model of baeunjs (src/src/baeunjs.js): the localStorage-backed        *)
(* stateManager and the hash router.  JavaScript values, the strings kept  *)
(* in localStorage and the JSON conversion between them are modelled       *)
(* structurally, so that a value and what comes back for it are different  *)
(* things that the checks compare.                                         *)
(*                                                                         *)
(* Spec       stateManager over a localStorage that works and is empty     *)
(* SpecFaulty stateManager over a localStorage that may be full or         *)
(*            disabled and holds a text written by other code              *)
(* SpecRouter hashRouter in a page: calls of hashRouter, changes of the    *)
(*            fragment, dispatch of hashchange events, manual renders      *)
(* SpecReentrant stateManager with a callback that calls set while it is   *)
(*            notified                                                     *)
(* SpecElem   calls of elem on bounded children values                     *)
(* SpecLink   anchors built by Link and clicks on them, in a page that may *)
(*            have a router                                                *)
(***************************************************************************)
EXTENDS Integers, Sequences, FiniteSets, TLC

VARIABLES
    store,      \* localStorage: key -> the stored string (or Absent)
    callbacks,  \* stateManager.callbacks: key -> the array of callbacks
    cbKeys,     \* Object.keys(stateManager.callbacks): keys in insertion order
    backend,    \* health of localStorage: "ok", "quota" or "down"
    last,       \* the stateManager call made last and what its caller saw
    log,        \* the callback invocations made by that call, in order
    hash,       \* window.location.hash, a sequence of tokens ("#" first, or empty)
    doc,        \* the ids for which document.getElementById finds an element
    containers, \* id -> the child nodes of that element, in order
    handlers,   \* the render closures registered for "hashchange", in order
    held,       \* the handlers whose render function hashRouter returned to its caller
    pending,    \* hashchange events queued and not yet dispatched
    rlast,      \* the router step made last: what ran and what its caller saw
    elast,      \* a call of elem: its arguments and, once made, what its caller saw
    anchor,     \* the anchor Link returned last, with the arguments it was built from
    clast       \* the call of Link or the click made last, and what it did

smVars == <<store, callbacks, cbKeys, backend, last, log>>

rtVars == <<hash, doc, containers, handlers, held, pending, rlast>>

uiVars == <<elast, anchor, clast>>

vars == <<store, callbacks, cbKeys, backend, last, log,
          hash, doc, containers, handlers, held, pending, rlast,
          elast, anchor, clast>>

(***************************************************************************)
(* Bounds of the model.                                                    *)
(***************************************************************************)
\* registrations made through onChange, over all keys
MaxRegs == 2

\* registrations of a callback that calls set
MaxReentrant == 1

\* successful calls of hashRouter
MaxRouters == 1

\* hashchange events waiting to be dispatched
MaxPending == 2

\* nodes (arrays and leaves) of a children value given to elem
MaxNodes == 4

Keys == {"a", "b"}

(***************************************************************************)
(* JavaScript values.  t is the result of typeof (with "null" for null),   *)
(* s the text of a primitive, p the own properties of a plain object as a  *)
(* sequence of <<name, leaf>> pairs.                                       *)
(***************************************************************************)
V(t, s, p) == [t |-> t, s |-> s, p |-> p]

Leaf(t, s) == [t |-> t, s |-> s]

Null == V("null", "", <<>>)

Undefined == V("undefined", "", <<>>)

Str(s) == V("string", s, <<>>)

Num(s) == V("number", s, <<>>)

Obj(p) == V("object", "", p)

Bool(s) == V("boolean", s, <<>>)

Func == V("function", "fn", <<>>)

\* the plain objects {} and {n: undefined}
EmptyObj == Obj(<<>>)

ObjNUndef == Obj(<< <<"n", Leaf("undefined", "")>> >>)

\* the values set() is called with; 5 and "5", NaN, "" and "null" are among them
SupportedValues ==
    {Null, Str(""), Str("null"), Str("5"), Num("5"), Num("NaN"),
     EmptyObj, ObjNUndef}

UnsupportedValues == {Bool("true"), Undefined, Func}

SetValues == SupportedValues \cup UnsupportedValues

\* the value a reentrant callback sets
W == Str("5")

(***************************************************************************)
(* JSON texts.  jt is the JSON type of the text, "none" standing for a     *)
(* member that is not there.                                               *)
(***************************************************************************)
J(jt, s, p) == [jt |-> jt, s |-> s, p |-> p]

NoJ == J("none", "", <<>>)

JNull == J("null", "", <<>>)

\* JSON.stringify of a property value: NaN and Infinity become null
stringifyLeaf(l) ==
    IF l.t = "number" THEN (IF l.s = "NaN" THEN Leaf("null", "") ELSE l)
    ELSE l

\* the properties JSON.stringify writes: undefined and function members are left out
RECURSIVE stringifyProps(_)
stringifyProps(p) ==
    IF p = <<>> THEN <<>>
    ELSE LET h == p[1]
         IN  IF h[2].t \in {"undefined", "function"}
             THEN stringifyProps(Tail(p))
             ELSE << <<h[1], stringifyLeaf(h[2])>> >> \o stringifyProps(Tail(p))

\* JSON.stringify(value) for the member "value" of the envelope
stringify(v) ==
    CASE v.t = "null" -> JNull
      [] v.t = "number" -> IF v.s = "NaN" THEN JNull ELSE J("number", v.s, <<>>)
      [] v.t = "string" -> J("string", v.s, <<>>)
      [] v.t = "object" -> J("object", "", stringifyProps(v.p))
      [] OTHER -> NoJ

\* JSON.parse of a member: the JavaScript value of a JSON text
parse(j) ==
    CASE j.jt = "null" -> Null
      [] j.jt = "number" -> Num(j.s)
      [] j.jt = "string" -> Str(j.s)
      [] j.jt = "object" -> Obj(j.p)
      [] OTHER -> Undefined

\* Number(value), on the values an envelope can hold
Number(v) ==
    CASE v.t = "number" -> v
      [] v.t = "null" -> Num("0")
      [] v.t = "string" ->
            IF v.s = "" THEN Num("0")
            ELSE IF v.s \in {"0", "1", "5"} THEN Num(v.s)
            ELSE Num("NaN")
      [] OTHER -> Num("NaN")

(***************************************************************************)
(* What localStorage holds for a key: nothing (getItem gives null), a text *)
(* that is not an envelope, or the text of an envelope {type, value}.      *)
(***************************************************************************)
Absent == [form |-> "absent", text |-> "", type |-> "", value |-> NoJ]

Text(x) == [form |-> "text", text |-> x, type |-> "", value |-> NoJ]

Env(ty, j) == [form |-> "env", text |-> "", type |-> ty, value |-> j]

\* texts some other code of the page may have put into localStorage
ForeignTexts ==
    {Text(""), Text("abc"), Text("5"), Env("boolean", J("string", "true", <<>>))}

\* whether JSON.parse accepts the text
parseable(ser) == ser.form = "env" \/ ser.text \in {"null", "5"}

(***************************************************************************)
(* stateManager.  An operation works on the record m of what the object    *)
(* and localStorage hold (store, callbacks, cbKeys) and of the callback    *)
(* invocations made so far (log); b is the health of localStorage.  It     *)
(* gives back the new m, whether it raised to its caller, and its result.  *)
(***************************************************************************)
CallbackIds == {"c1", "boom"}

\* the callbacks that raise when they are called
Raising == {"boom"}

\* the callbacks that call set on the key they are notified for, with the value W,
\* unless W is the value they are given: v => { if (v !== W) stateManager.set(k, W) }
Reentrant == {"re"}

Result(m, raised, ret) == [m |-> m, raised |-> raised, ret |-> ret]

RECURSIVE set(_, _, _, _)

\* callback(value): the call is logged; a callback of Raising then raises, one of
\* Reentrant calls set, which runs to its end before callback returns
callCallback(m, b, cb, key, value) ==
    LET called == [m EXCEPT !.log = Append(@, [cb |-> cb, key |-> key, val |-> value])]
    IN  IF cb \in Raising THEN Result(called, TRUE, Undefined)
        ELSE IF cb \in Reentrant /\ value # W
        THEN Result(set(called, b, key, W).m, FALSE, Undefined)
        ELSE Result(called, FALSE, Undefined)

\* this.callbacks[key].forEach(...) from index i on: an exception ends the loop
RECURSIVE forEachCallback(_, _, _, _, _, _)
forEachCallback(m, b, cbs, i, key, value) ==
    IF i > Len(cbs) THEN Result(m, FALSE, Undefined)
    ELSE LET r == callCallback(m, b, cbs[i], key, value)
         IN  IF r.raised THEN r
             ELSE forEachCallback(r.m, b, cbs, i + 1, key, value)

\* _triggerCallbacks(key, value): nothing to do for a key without a callback array
_triggerCallbacks(m, b, key, value) ==
    IF \E i \in 1..Len(m.cbKeys) : m.cbKeys[i] = key
    THEN forEachCallback(m, b, m.callbacks[key], 1, key, value)
    ELSE Result(m, FALSE, Undefined)

\* serialize with the final else branch lost: whatever is not null, a string or a
\* number is written as an object
serializeAnything(value) ==
    IF value.t = "null" THEN [ok |-> TRUE, ser |-> Text("null")]
    ELSE IF value.t = "string" \/ value.t = "number"
    THEN [ok |-> TRUE, ser |-> Env(value.t, stringify(value))]
    ELSE [ok |-> TRUE, ser |-> Env("object", stringify(value))]

\* the type dispatch of set(): the string to store, or the unsupported-type error
serialize(value) ==
    IF value.t = "null" THEN [ok |-> TRUE, ser |-> Text("null")]
    ELSE IF value.t = "string" \/ value.t = "number"
    THEN [ok |-> TRUE, ser |-> Env(value.t, stringify(value))]
    ELSE IF value.t = "object"
    THEN [ok |-> TRUE, ser |-> Env("object", stringify(value))]
    ELSE [ok |-> FALSE, ser |-> Absent]

\* which localStorage methods raise in which health
setItemRaises(b) == b \in {"quota", "down"}

getItemRaises(b) == b = "down"

removeItemRaises(b) == b = "down"

clearRaises(b) == b = "down"

\* set(key, value): every exception of the try block is caught and logged
set(m, b, key, value) ==
    LET sv == serialize(value)
    IN  IF ~sv.ok THEN Result(m, FALSE, Undefined)
        ELSE IF setItemRaises(b) THEN Result(m, FALSE, Undefined)
        ELSE LET r == _triggerCallbacks([m EXCEPT !.store[key] = sv.ser], b, key, value)
             IN  Result(r.m, FALSE, Undefined)

\* the switch of get() with its default branch lost: an unknown type gives the value
restoreAnyType(type, value) ==
    CASE type = "number" -> Number(value)
      [] OTHER -> value

\* the switch of get() on the envelope's type
restore(type, value) ==
    CASE type = "string" -> value
      [] type = "number" -> Number(value)
      [] type = "object" -> value
      [] OTHER -> Null

\* get(key): a raising getItem or JSON.parse is caught and gives null; a text that
\* parses to something other than an envelope has no type member
get(m, b, key) ==
    IF getItemRaises(b) THEN Null
    ELSE LET serializedValue == m.store[key]
         IN  IF serializedValue.form = "absent" THEN Null
             ELSE IF serializedValue.form = "text" /\ serializedValue.text = ""
             THEN Null
             ELSE IF serializedValue.form = "text" /\ serializedValue.text = "null"
             THEN Null
             ELSE IF ~parseable(serializedValue) THEN Null
             ELSE IF serializedValue.form = "text"
             THEN restore("undefined", Undefined)
             ELSE restore(serializedValue.type, parse(serializedValue.value))

\* the updaters update() is called with
Updaters == {"id", "toFive", "toTrue", "boom"}

\* updater(currentValue)
updater(fn, currentValue) ==
    CASE fn = "id" -> [raised |-> FALSE, ret |-> currentValue]
      [] fn = "toFive" -> [raised |-> FALSE, ret |-> Num("5")]
      [] fn = "toTrue" -> [raised |-> FALSE, ret |-> Bool("true")]
      [] OTHER -> [raised |-> TRUE, ret |-> Undefined]

\* update(key, updater): no try block, so what the updater raises reaches the caller
update(m, b, key, fn) ==
    LET currentValue == get(m, b, key)
        u == updater(fn, currentValue)
    IN  IF u.raised THEN Result(m, TRUE, Undefined)
        ELSE Result(set(m, b, key, u.ret).m, FALSE, u.ret)

\* remove(key)
remove(m, b, key) ==
    IF removeItemRaises(b) THEN Result(m, FALSE, Undefined)
    ELSE Result(_triggerCallbacks([m EXCEPT !.store[key] = Absent], b, key, Null).m,
                FALSE, Undefined)

\* Object.keys(this.callbacks).forEach(key => _triggerCallbacks(key, null)) from index i on
RECURSIVE forEachKey(_, _, _, _)
forEachKey(m, b, keys, i) ==
    IF i > Len(keys) THEN Result(m, FALSE, Undefined)
    ELSE LET r == _triggerCallbacks(m, b, keys[i], Null)
         IN  IF r.raised THEN r ELSE forEachKey(r.m, b, keys, i + 1)

\* clear()
clear(m, b) ==
    IF clearRaises(b) THEN Result(m, FALSE, Undefined)
    ELSE Result(forEachKey([m EXCEPT !.store = [k \in Keys |-> Absent]], b, m.cbKeys, 1).m,
                FALSE, Undefined)

\* onChange(key, callback)
onChange(m, key, callback) ==
    LET known == \E i \in 1..Len(m.cbKeys) : m.cbKeys[i] = key
    IN  Result([m EXCEPT !.callbacks[key] = Append(@, callback),
                         !.cbKeys = IF known THEN @ ELSE Append(@, key)],
               FALSE, Undefined)

(***************************************************************************)
(* The calls an application makes on stateManager, one action per method.  *)
(***************************************************************************)
\* what the object and localStorage hold when a call starts
Machine == [store |-> store, callbacks |-> callbacks, cbKeys |-> cbKeys, log |-> <<>>]

Call(op, key, arg, fn, raised, ret) ==
    [op |-> op, key |-> key, arg |-> arg, fn |-> fn, raised |-> raised, ret |-> ret]

\* the registrations of callbacks of the set S
RegsOf(S) ==
    Len(SelectSeq(callbacks["a"], LAMBDA c : c \in S))
        + Len(SelectSeq(callbacks["b"], LAMBDA c : c \in S))

Regs == RegsOf(CallbackIds)

Apply(r) ==
    /\ store' = r.m.store
    /\ callbacks' = r.m.callbacks
    /\ cbKeys' = r.m.cbKeys
    /\ log' = r.m.log
    /\ UNCHANGED backend

Set ==
    \E key \in Keys, value \in SetValues :
        LET r == set(Machine, backend, key, value)
        IN  /\ Apply(r)
            /\ last' = Call("set", key, value, "", r.raised, r.ret)

Get ==
    \E key \in Keys :
        /\ last' = Call("get", key, Undefined, "", FALSE,
                        get(Machine, backend, key))
        /\ log' = <<>>
        /\ UNCHANGED <<store, callbacks, cbKeys, backend>>

Update ==
    \E key \in Keys, fn \in Updaters :
        LET r == update(Machine, backend, key, fn)
        IN  /\ Apply(r)
            /\ last' = Call("update", key, Undefined, fn, r.raised, r.ret)

Remove ==
    \E key \in Keys :
        LET r == remove(Machine, backend, key)
        IN  /\ Apply(r)
            /\ last' = Call("remove", key, Undefined, "", r.raised, r.ret)

Clear ==
    LET r == clear(Machine, backend)
    IN  /\ Apply(r)
        /\ last' = Call("clear", "", Undefined, "", r.raised, r.ret)

OnChange ==
    \E key \in Keys, callback \in CallbackIds :
        /\ Regs < MaxRegs
        /\ LET r == onChange(Machine, key, callback)
           IN  /\ Apply(r)
               /\ last' = Call("onChange", key, Undefined, callback,
                               r.raised, r.ret)

\* the application registers a callback that calls set
OnChangeReentrant ==
    \E key \in Keys, callback \in Reentrant :
        /\ RegsOf(Reentrant) < MaxReentrant
        /\ LET r == onChange(Machine, key, callback)
           IN  /\ Apply(r)
               /\ last' = Call("onChange", key, Undefined, callback,
                               r.raised, r.ret)

(***************************************************************************)
(* hashRouter.  location.hash and the route keys are sequences of tokens,  *)
(* "#" being one token, so that slice(1) is an operation on them.          *)
(***************************************************************************)
Paths == {<<"/">>, <<"/", "about">>, <<"/", "missing">>, <<"constructor">>}

\* the values location.hash takes: "" or "#" followed by a path
Hashes == {<<>>} \cup {<<"#">> \o p : p \in Paths}

ContainerIds == {"app", "main"}

\* String.prototype.slice(1)
slice1(str) == IF Len(str) <= 1 THEN <<>> ELSE SubSeq(str, 2, Len(str))

\* the route tables hashRouter is called with (object literals)
RouteTables == {"full", "noStar", "broken"}

routesOf(t) ==
    CASE t = "full" ->
            (<<"/">> :> "home") @@ (<<"/", "about">> :> "about") @@ (<<"*">> :> "notFound")
      [] t = "noStar" ->
            (<<"/">> :> "home") @@ (<<"/", "about">> :> "about")
      [] OTHER ->
            (<<"/">> :> "home") @@ (<<"/", "about">> :> "broken") @@ (<<"*">> :> "notFound")

\* the property names an object literal inherits from Object.prototype
InheritedKeys == {<<"constructor">>}

\* routes[key]: an own property, else an inherited one, else undefined
property(routes, key) ==
    IF key \in DOMAIN routes THEN routes[key]
    ELSE IF key \in InheritedKeys THEN "Object"
    ELSE "undefined"

\* routes[hash] || routes["*"]
lookup(routes, key) ==
    LET exact == property(routes, key)
    IN  IF exact # "undefined" THEN exact ELSE property(routes, <<"*">>)

\* component(): a route function returns its node, "broken" raises, calling undefined
\* raises, and the inherited Object constructor returns an object that is no node
callComponent(component) ==
    CASE component \in {"home", "about", "notFound"} ->
            [raised |-> FALSE, invoked |-> <<component>>, node |-> component, isNode |-> TRUE]
      [] component = "broken" ->
            [raised |-> TRUE, invoked |-> <<component>>, node |-> "", isNode |-> FALSE]
      [] component = "Object" ->
            [raised |-> FALSE, invoked |-> <<component>>, node |-> "", isNode |-> FALSE]
      [] OTHER ->
            [raised |-> TRUE, invoked |-> <<>>, node |-> "", isNode |-> FALSE]

\* render() of the handler h = [routes, app], with location.hash = hs
render(cs, hs, h) ==
    LET sliced == slice1(hs)
        path == IF sliced = <<>> THEN <<"/">> ELSE sliced
        component == lookup(routesOf(h.routes), path)
        cleared == [cs EXCEPT ![h.app] = <<>>]
        c == callComponent(component)
    IN  IF c.raised \/ ~c.isNode
        THEN [containers |-> cleared, invoked |-> c.invoked, path |-> path, raised |-> TRUE]
        ELSE [containers |-> [cleared EXCEPT ![h.app] = Append(@, c.node)],
              invoked |-> c.invoked, path |-> path, raised |-> FALSE]

\* one run of render as a step records it
Ran(i, r) == [by |-> i, path |-> r.path, invoked |-> r.invoked, raised |-> r.raised]

RouterStep(op, arg, raised, renders) ==
    [op |-> op, arg |-> arg, raised |-> raised, renders |-> renders]

\* hashRouter with the listener registered before the container is looked up
hashRouterListensFirst(cs, hs, hdl, d, routes, appId) ==
    LET h == [routes |-> routes, app |-> appId]
    IN  IF appId \notin d
        THEN [handlers |-> Append(hdl, h), containers |-> cs, raised |-> TRUE,
              renders |-> <<>>]
        ELSE LET r == render(cs, hs, h)
             IN  [handlers |-> Append(hdl, h), containers |-> r.containers,
                  raised |-> r.raised, renders |-> <<Ran(Len(hdl) + 1, r)>>]

\* hashRouter with the first render made before the listener is registered
hashRouterRendersFirst(cs, hs, hdl, d, routes, appId) ==
    IF appId \notin d
    THEN [handlers |-> hdl, containers |-> cs, raised |-> TRUE, renders |-> <<>>]
    ELSE LET h == [routes |-> routes, app |-> appId]
             r == render(cs, hs, h)
         IN  [handlers |-> IF r.raised THEN hdl ELSE Append(hdl, h),
              containers |-> r.containers,
              raised |-> r.raised, renders |-> <<Ran(Len(hdl) + 1, r)>>]

\* hashRouter(routes, appId) with the listeners hdl registered and the elements d in
\* the document: the lookup of the container, the registration, the first render
hashRouter(cs, hs, hdl, d, routes, appId) ==
    IF appId \notin d
    THEN [handlers |-> hdl, containers |-> cs, raised |-> TRUE, renders |-> <<>>]
    ELSE LET h == [routes |-> routes, app |-> appId]
             r == render(cs, hs, h)
         IN  [handlers |-> Append(hdl, h), containers |-> r.containers,
              raised |-> r.raised, renders |-> <<Ran(Len(hdl) + 1, r)>>]

\* the application calls hashRouter
HashRouter ==
    \E t \in RouteTables, appId \in ContainerIds :
        LET r == hashRouter(containers, hash, handlers, doc, t, appId)
        IN  /\ Len(r.handlers) <= MaxRouters
            /\ handlers' = r.handlers
            /\ containers' = r.containers
            /\ held' = IF r.raised THEN held ELSE held \cup {Len(r.handlers)}
            /\ rlast' = RouterStep("hashRouter", appId, r.raised, r.renders)
            /\ UNCHANGED <<hash, doc, pending>>

\* the fragment of the URL changes: the browser queues a hashchange event
SetHash ==
    \E hs \in Hashes :
        /\ hs # hash
        /\ pending < MaxPending
        /\ hash' = hs
        /\ pending' = pending + 1
        /\ rlast' = RouterStep("setHash", "", FALSE, <<>>)
        /\ UNCHANGED <<doc, containers, handlers, held>>

\* the listeners of one event run in registration order from index i on; what one
\* raises is reported by the browser and does not stop the others
RECURSIVE dispatch(_, _, _, _)
dispatch(cs, hs, hdl, i) ==
    IF i > Len(hdl) THEN [containers |-> cs, renders |-> <<>>]
    ELSE LET r == render(cs, hs, hdl[i])
             rest == dispatch(r.containers, hs, hdl, i + 1)
         IN  [containers |-> rest.containers, renders |-> <<Ran(i, r)>> \o rest.renders]

\* the browser dispatches one queued hashchange event
Dispatch ==
    /\ pending > 0
    /\ pending' = pending - 1
    /\ LET d == dispatch(containers, hash, handlers, 1)
       IN  /\ containers' = d.containers
           /\ rlast' = RouterStep("hashchange", "", FALSE, d.renders)
    /\ UNCHANGED <<hash, doc, handlers, held>>

\* the application calls the function hashRouter returned
ManualRender ==
    \E i \in held :
        LET r == render(containers, hash, handlers[i])
        IN  /\ containers' = r.containers
            /\ rlast' = RouterStep("render", "", r.raised, <<Ran(i, r)>>)
            /\ UNCHANGED <<hash, doc, handlers, held, pending>>

(***************************************************************************)
(* elem.  An argument of elem is a record: k is its kind (typeof, with      *)
(* "array", "element" and "null" told apart), s the text of a primitive or  *)
(* the identity of an element, items the members of an array, props the     *)
(* own properties of an options object as <<key, value>> pairs in the order *)
(* of Object.keys.  A property value is [t, s], s a sequence of tokens.     *)
(***************************************************************************)
A(k, s, items, props) == [k |-> k, s |-> s, items |-> items, props |-> props]

CText(x) == A("string", x, <<>>, <<>>)

CNum(x) == A("number", x, <<>>, <<>>)

CElem(id) == A("element", id, <<>>, <<>>)

CBool == A("boolean", "true", <<>>, <<>>)

CNull == A("null", "", <<>>, <<>>)

\* an argument that is left out
Omitted == A("undefined", "", <<>>, <<>>)

Arr(items) == A("array", "", items, <<>>)

Options(props) == A("object", "", <<>>, props)

\* the leaves of the children values: a text, a number, an element, and two values
\* of other kinds
LeafValues == {CText("x"), CNum("5"), CElem("e"), CBool, CNull}

\* the children values of at most n nodes, and the sequences of them of at most n
\* nodes in all
RECURSIVE Trees(_)
RECURSIVE Forests(_)
Trees(n) == LeafValues \cup {Arr(f) : f \in Forests(n - 1)}

Forests(n) ==
    IF n = 0 THEN {<<>>}
    ELSE {<<>>} \cup
         UNION {{<<t>> \o f : t \in Trees(k), f \in Forests(n - k)} : k \in 1..n}

ChildrenValues == Trees(MaxNodes)

\* a DOM node: a text node with its data, or an element with its identity
TextNode(data) == [kind |-> "text", data |-> data]

ElementNode(id) == [kind |-> "element", data |-> id]

\* document.createElement(tagName): appended is the sequence of appendChild calls
\* made on the element
createElement(tagName) ==
    [tag |-> tagName, className |-> <<>>, href |-> <<>>, listeners |-> <<>>,
     attrs |-> <<>>, childNodes |-> <<>>, appended |-> <<>>]

\* parent.appendChild(node): an element that is already a child is moved to the end,
\* a text node made by createTextNode is always a new node
appendChild(parent, node) ==
    LET others == IF node.kind = "element"
                  THEN SelectSeq(parent.childNodes, LAMBDA c : c # node)
                  ELSE parent.childNodes
    IN  [parent EXCEPT !.childNodes = Append(others, node),
                       !.appended = Append(@, node)]

\* String(children) of a string or a number
String(c) == c.s

\* isChildren(value)
isChildren(value) ==
    \/ value.k = "string"
    \/ value.k = "number"
    \/ value.k = "array"
    \/ value.k = "element"

\* appendChildren with the final else branch lost: a value of another kind is
\* appended as a text node
RECURSIVE appendChildrenLenient(_, _)
RECURSIVE forEachChildLenient(_, _, _)
forEachChildLenient(parent, items, i) ==
    IF i > Len(items) THEN [raised |-> FALSE, el |-> parent]
    ELSE LET r == appendChildrenLenient(parent, items[i])
         IN  IF r.raised THEN r ELSE forEachChildLenient(r.el, items, i + 1)

appendChildrenLenient(parent, children) ==
    IF children.k = "array" THEN forEachChildLenient(parent, children.items, 1)
    ELSE IF children.k = "element"
    THEN [raised |-> FALSE, el |-> appendChild(parent, ElementNode(children.s))]
    ELSE [raised |-> FALSE, el |-> appendChild(parent, TextNode(String(children)))]

\* appendChildren(parent, children); children.forEach from index i on ends at the
\* first child that raises
RECURSIVE appendChildren(_, _)
RECURSIVE forEachChild(_, _, _)
forEachChild(parent, items, i) ==
    IF i > Len(items) THEN [raised |-> FALSE, el |-> parent]
    ELSE LET r == appendChildren(parent, items[i])
         IN  IF r.raised THEN r ELSE forEachChild(r.el, items, i + 1)

appendChildren(parent, children) ==
    IF children.k = "array" THEN forEachChild(parent, children.items, 1)
    ELSE IF children.k = "element"
    THEN [raised |-> FALSE, el |-> appendChild(parent, ElementNode(children.s))]
    ELSE IF children.k = "string" \/ children.k = "number"
    THEN [raised |-> FALSE, el |-> appendChild(parent, TextNode(String(children)))]
    ELSE [raised |-> TRUE, el |-> parent]

\* the keys that start with "on", and the event each names: key.slice(2).toLowerCase()
OnKeys == {"onclick"}

EventName(key) == IF key = "onclick" THEN "click" ELSE key

\* the keys for which (key in element) holds on an anchor, among those used here
ElementProps == {"href", "className", "onclick"}

\* the body of the forEach of setAttributesAndEvents for one key
setOne(element, key, value) ==
    IF value.t = "function" /\ key \in OnKeys
    THEN [element EXCEPT !.listeners = Append(@, [event |-> EventName(key), fn |-> value.s])]
    ELSE IF key = "class" THEN [element EXCEPT !.className = value.s]
    ELSE IF key \in ElementProps
    THEN (CASE key = "href" -> [element EXCEPT !.href = value.s]
            [] key = "className" -> [element EXCEPT !.className = value.s]
            [] OTHER -> element)
    ELSE [element EXCEPT !.attrs = Append(@, <<key, value.s>>)]

\* Object.keys(options).forEach(...) from index i on
RECURSIVE forEachOption(_, _, _)
forEachOption(element, props, i) ==
    IF i > Len(props) THEN element
    ELSE forEachOption(setOne(element, props[i][1], props[i][2]), props, i + 1)

\* setAttributesAndEvents(element, options): Object.keys raises on null
setAttributesAndEvents(element, options) ==
    IF options.k \in {"null", "undefined"} THEN [raised |-> TRUE, el |-> element]
    ELSE [raised |-> FALSE, el |-> forEachOption(element, options.props, 1)]

\* tagName.trim() of the tag names used here
trim(str) == IF str \in {"", " "} THEN "" ELSE str

\* elem(tagName, options = {}, children); tagName is a JavaScript value
elem(tagName, options, children) ==
    IF tagName.t # "string" \/ trim(tagName.s) = ""
    THEN [raised |-> TRUE, el |-> createElement("")]
    ELSE LET element == createElement(tagName.s)
             given == IF options.k = "undefined" THEN Options(<<>>) ELSE options
             kids == IF isChildren(given) THEN given ELSE children
             opts == IF isChildren(given) THEN Options(<<>>) ELSE given
             a == setAttributesAndEvents(element, opts)
         IN  IF a.raised THEN a
             ELSE IF kids.k \notin {"undefined", "null"}
             THEN appendChildren(a.el, kids)
             ELSE a

\* a call of elem as the model records it
ElemCall(children, omitted, done, r) ==
    [children |-> children, omitted |-> omitted, done |-> done,
     raised |-> r.raised, childNodes |-> r.el.childNodes, appended |-> r.el.appended]

NoElem == ElemCall(Omitted, FALSE, FALSE, [raised |-> FALSE, el |-> createElement("")])

\* the application calls elem("div", children) or elem("div", {}, children)
Elem ==
    /\ ~elast.done
    /\ elast' = ElemCall(elast.children, elast.omitted, TRUE,
                         IF elast.omitted
                         THEN elem(Str("div"), elast.children, Omitted)
                         ELSE elem(Str("div"), Options(<<>>), elast.children))
    /\ UNCHANGED <<anchor, clast>>

(***************************************************************************)
(* Link, and a click on the anchor it returns.                             *)
(***************************************************************************)
\* a property value: a string (s its tokens), a function (s its name), or undefined
PV(t, s) == [t |-> t, s |-> s]

\* the function Link gives for onclick, and a handler of the application
LinkHandler == <<"navigate">>

UserHandler == <<"user">>

\* props[key]
getProp(props, key) ==
    IF \E i \in 1..Len(props) : props[i][1] = key
    THEN props[CHOOSE i \in 1..Len(props) : props[i][1] = key][2]
    ELSE PV("undefined", <<>>)

\* const { class: _, ...otherProps } = props
otherPropsOf(props) == SelectSeq(props, LAMBDA e : e[1] # "class")

\* { ...base, ...extra }: a key base has keeps its place and takes the new value, a
\* new key is added at the end
RECURSIVE spread(_, _)
spread(base, extra) ==
    IF extra = <<>> THEN base
    ELSE LET e == Head(extra)
             merged == IF \E i \in 1..Len(base) : base[i][1] = e[1]
                       THEN [i \in 1..Len(base) |->
                                IF base[i][1] = e[1] THEN e ELSE base[i]]
                       ELSE Append(base, e)
         IN  spread(merged, Tail(extra))

\* Boolean(value) of a property value
truthy(value) == value.t # "undefined" /\ value.s # <<>>

\* parts.join(" ")
RECURSIVE join(_)
join(parts) ==
    IF parts = <<>> THEN <<>>
    ELSE IF Len(parts) = 1 THEN parts[1].s
    ELSE parts[1].s \o <<" ">> \o join(Tail(parts))

\* Link(href, props = {}, children) with location.hash = hs
Link(hs, href, props, children) ==
    LET given == IF props.k = "undefined" THEN <<>> ELSE props.props
        dynamicClass == IF slice1(hs) = href THEN <<"router-active">> ELSE <<>>
        combinedClass ==
            join(SelectSeq(<<getProp(given, "class"), PV("string", dynamicClass)>>,
                           truthy))
    IN  elem(Str("a"),
             Options(spread(<< <<"href", PV("string", <<"#">> \o href)>>,
                               <<"onclick", PV("function", LinkHandler)>>,
                               <<"class", PV("string", combinedClass)>> >>,
                            otherPropsOf(given))),
             children)

\* the hrefs Link is called with
LinkHrefs == {<<"/">>, <<"/", "about">>}

\* the props Link is called with
PropsMaps ==
    {<< <<"class", PV("string", <<>>)>> >>,
     << <<"class", PV("string", <<"btn">>)>> >>,
     << <<"onclick", PV("function", UserHandler)>> >>,
     << <<"href", PV("string", <<"#", "/", "about">>)>> >>,
     << <<"className", PV("string", <<"nav">>)>> >>}

LinkProps == {Omitted} \cup {Options(p) : p \in PropsMaps}

\* window.location.hash = value
assignHash(value) ==
    IF value = <<>> THEN <<>>
    ELSE IF Head(value) = "#" THEN (IF Len(value) = 1 THEN <<>> ELSE value)
    ELSE <<"#">> \o value

\* the click listeners of an anchor run in registration order from index i on; pg is
\* the fragment and whether preventDefault was called
RECURSIVE runListeners(_, _, _, _)
runListeners(listeners, i, href, pg) ==
    IF i > Len(listeners) THEN pg
    ELSE LET l == listeners[i]
             after == IF l.event = "click" /\ l.fn = LinkHandler
                      THEN [hash |-> assignHash(href), prevented |-> TRUE]
                      ELSE pg
         IN  runListeners(listeners, i + 1, href, after)

\* a click on the anchor: its listeners, then, unless prevented, the navigation to
\* the fragment its href names
click(a, hs) ==
    LET pg == runListeners(a.el.listeners, 1, a.href, [hash |-> hs, prevented |-> FALSE])
    IN  IF pg.prevented THEN pg
        ELSE [hash |-> assignHash(a.el.href), prevented |-> FALSE]

Anchor(built, href, props, hashThen, el) ==
    [built |-> built, href |-> href, props |-> props, hashThen |-> hashThen, el |-> el]

NoAnchor == Anchor(FALSE, <<>>, Omitted, <<>>, createElement(""))

LinkStep(op, prevented, raised) == [op |-> op, prevented |-> prevented, raised |-> raised]

\* the application calls Link
LinkBuild ==
    \E href \in LinkHrefs, props \in LinkProps :
        LET r == Link(hash, href, props, CText("x"))
        IN  /\ anchor' = Anchor(TRUE, href, props, hash, r.el)
            /\ clast' = LinkStep("link", FALSE, r.raised)
            /\ UNCHANGED <<elast, hash, doc, containers, handlers, held, pending, rlast>>

\* the user clicks the anchor; a change of the fragment queues a hashchange event
Click ==
    /\ anchor.built
    /\ pending < MaxPending
    /\ LET c == click(anchor, hash)
       IN  /\ hash' = c.hash
           /\ pending' = IF c.hash # hash THEN pending + 1 ELSE pending
           /\ clast' = LinkStep("click", c.prevented, FALSE)
    /\ UNCHANGED <<elast, anchor, doc, containers, handlers, held, rlast>>

NoUi ==
    /\ elast = NoElem
    /\ anchor = NoAnchor
    /\ clast = LinkStep("none", FALSE, FALSE)

NoRouter ==
    /\ hash = <<>>
    /\ doc = {}
    /\ containers = [c \in ContainerIds |-> <<>>]
    /\ handlers = <<>>
    /\ held = {}
    /\ pending = 0
    /\ rlast = RouterStep("none", "", FALSE, <<>>)

Init ==
    /\ store = [k \in Keys |-> Absent]
    /\ callbacks = [k \in Keys |-> <<>>]
    /\ cbKeys = <<>>
    /\ backend = "ok"
    /\ last = Call("none", "", Undefined, "", FALSE, Undefined)
    /\ log = <<>>
    /\ NoRouter
    /\ NoUi

Next ==
    \/ (Set /\ UNCHANGED <<rtVars, uiVars>>)
    \/ (Get /\ UNCHANGED <<rtVars, uiVars>>)
    \/ (Update /\ UNCHANGED <<rtVars, uiVars>>)
    \/ (Remove /\ UNCHANGED <<rtVars, uiVars>>)
    \/ (Clear /\ UNCHANGED <<rtVars, uiVars>>)
    \/ (OnChange /\ UNCHANGED <<rtVars, uiVars>>)

\* stateManager over a localStorage that works
Spec == Init /\ [][Next]_vars

\* the page loads with a text of other code in localStorage (under key "a": the code
\* treats all keys alike), and localStorage may be full or disabled
InitFaulty ==
    /\ \E ser \in {Absent} \cup ForeignTexts :
           store = [k \in Keys |-> IF k = "a" THEN ser ELSE Absent]
    /\ callbacks = [k \in Keys |-> <<>>]
    /\ cbKeys = <<>>
    /\ backend \in {"ok", "quota", "down"}
    /\ last = Call("none", "", Undefined, "", FALSE, Undefined)
    /\ log = <<>>
    /\ NoRouter
    /\ NoUi

\* stateManager over a localStorage that may raise and that other code has written to
SpecFaulty == InitFaulty /\ [][Next]_vars

NextReentrant ==
    \/ (Set /\ UNCHANGED <<rtVars, uiVars>>)
    \/ (Remove /\ UNCHANGED <<rtVars, uiVars>>)
    \/ (OnChange /\ UNCHANGED <<rtVars, uiVars>>)
    \/ (OnChangeReentrant /\ UNCHANGED <<rtVars, uiVars>>)

\* stateManager with a callback that calls set while it is being notified
SpecReentrant == Init /\ [][NextReentrant]_vars

\* the page loads with any fragment; the elements of ContainerIds that exist hold
\* the markup of the page
InitRouter ==
    /\ store = [k \in Keys |-> Absent]
    /\ callbacks = [k \in Keys |-> <<>>]
    /\ cbKeys = <<>>
    /\ backend = "ok"
    /\ last = Call("none", "", Undefined, "", FALSE, Undefined)
    /\ log = <<>>
    /\ hash \in Hashes
    /\ doc \in SUBSET ContainerIds
    /\ containers = [c \in ContainerIds |-> IF c \in doc THEN <<"old">> ELSE <<>>]
    /\ handlers = <<>>
    /\ held = {}
    /\ pending = 0
    /\ rlast = RouterStep("none", "", FALSE, <<>>)
    /\ NoUi

NextRouter ==
    \/ (HashRouter /\ UNCHANGED <<smVars, uiVars>>)
    \/ (SetHash /\ UNCHANGED <<smVars, uiVars>>)
    \/ (Dispatch /\ UNCHANGED <<smVars, uiVars>>)
    \/ (ManualRender /\ UNCHANGED <<smVars, uiVars>>)

\* the hash router in a page
SpecRouter == InitRouter /\ [][NextRouter]_vars

\* a page with the container "app", any fragment, and no anchor built yet
InitLink ==
    /\ store = [k \in Keys |-> Absent]
    /\ callbacks = [k \in Keys |-> <<>>]
    /\ cbKeys = <<>>
    /\ backend = "ok"
    /\ last = Call("none", "", Undefined, "", FALSE, Undefined)
    /\ log = <<>>
    /\ hash \in Hashes
    /\ doc = {"app"}
    /\ containers = [c \in ContainerIds |-> IF c \in doc THEN <<"old">> ELSE <<>>]
    /\ handlers = <<>>
    /\ held = {}
    /\ pending = 0
    /\ rlast = RouterStep("none", "", FALSE, <<>>)
    /\ NoUi

NextLink ==
    \/ (HashRouter /\ UNCHANGED <<smVars, uiVars>>)
    \/ (Dispatch /\ UNCHANGED <<smVars, uiVars>>)
    \/ (LinkBuild /\ UNCHANGED smVars)
    \/ (Click /\ UNCHANGED smVars)

\* anchors built by Link in a page that may have a router
SpecLink == InitLink /\ [][NextLink]_vars

\* elem is about to be called with a children value, as second or as third argument
InitElem ==
    /\ store = [k \in Keys |-> Absent]
    /\ callbacks = [k \in Keys |-> <<>>]
    /\ cbKeys = <<>>
    /\ backend = "ok"
    /\ last = Call("none", "", Undefined, "", FALSE, Undefined)
    /\ log = <<>>
    /\ NoRouter
    /\ \E c \in ChildrenValues, omitted \in BOOLEAN :
           elast = ElemCall(c, omitted, FALSE, [raised |-> FALSE, el |-> createElement("")])
    /\ anchor = NoAnchor
    /\ clast = LinkStep("none", FALSE, FALSE)

NextElem ==
    \/ (Elem /\ UNCHANGED <<smVars, rtVars>>)

\* calls of elem
SpecElem == InitElem /\ [][NextElem]_vars

(***************************************************************************)
(* The claims.                                                             *)
(***************************************************************************)
\* what a call of get(key) made now returns
GetNow(key) == get(Machine, backend, key)

\* what get(key) returns once the step under way is over
GetNext(key) ==
    get([store |-> store', callbacks |-> callbacks', cbKeys |-> cbKeys', log |-> <<>>],
        backend', key)

\* the invocations of the last call that went to callbacks of key
LogOf(key) == SelectSeq(log, LAMBDA e : e.key = key)

\* every callback registered for key was invoked once, in registration order, with value
Notified(key, value) ==
    /\ Len(LogOf(key)) = Len(callbacks[key])
    /\ \A i \in 1..Len(callbacks[key]) :
           LogOf(key)[i] = [cb |-> callbacks[key][i], key |-> key, val |-> value]

\* C1: get(k) right after set(k, v), v a string, number, plain object or null, returns
\* a value equal to v and of the same kind.
C1_SetThenGetReturnsValue ==
    (last.op = "set" /\ last.arg \in SupportedValues) => GetNow(last.key) = last.arg

\* C2: set(k, v) with v a function, a boolean or undefined does not raise, leaves every
\* stored entry as it was and invokes no callback.
C2_UnsupportedSetChangesNothing ==
    [][(last'.op = "set" /\ last'.arg.t \in {"function", "boolean", "undefined"})
        => (~last'.raised /\ store' = store /\ log' = <<>>)]_vars

\* C2 witness: a function was given to set for a key that had a stored entry and a
\* registered callback.
C2_Witness ==
    /\ last.op = "set"
    /\ last.arg = Func
    /\ store[last.key] # Absent
    /\ callbacks[last.key] # <<>>

\* C3: no call of set, get, update, remove or clear raises to its caller.
C3_NoCallRaises ==
    last.op \in {"set", "get", "update", "remove", "clear"} => ~last.raised

\* C4: each successful set(k, v), each remove(k) and each clear() invokes every callback
\* registered for k once, in registration order, with the new value, whatever the
\* callbacks do.
C4_EveryCallbackNotifiedInOrder ==
    /\ (last.op = "set" /\ last.arg \in SupportedValues)
           => Notified(last.key, last.arg)
    /\ last.op = "remove" => Notified(last.key, Null)
    /\ last.op = "clear" => \A k \in Keys : Notified(k, Null)

\* C5: update(k, f), for f returning a result, returns the result of f applied to what
\* get(k) returned before the call (null for an absent key), and get(k) right
\* afterwards returns the value that update returned.
C5_UpdateReturnsWhatGetReturns ==
    [][LET f == updater(last'.fn, GetNow(last'.key))
       IN  (last'.op = "update" /\ ~f.raised)
               => /\ ~last'.raised
                  /\ last'.ret = f.ret
                  /\ GetNext(last'.key) = last'.ret]_vars

\* C6: after clear(), get(k) returns null for every key, and clear has invoked
\* callbacks, each with null, for exactly the keys that have a registered callback.
C6_ClearNotifiesEveryListenedKey ==
    last.op = "clear"
        => /\ \A k \in Keys : GetNow(k) = Null
           /\ {log[i].key : i \in 1..Len(log)} = {k \in Keys : callbacks[k] # <<>>}
           /\ \A i \in 1..Len(log) : log[i].val = Null

\* C7: remove(k) makes get(k) return null and notifies the callbacks of k with null;
\* remove(k) and set(k, v) leave the entries of the other keys as they were and
\* invoke no callback of another key.
C7_RemoveAndSetTouchOnlyTheirKey ==
    [][(last'.op \in {"remove", "set"})
        => /\ last'.op = "remove"
                  => /\ GetNext(last'.key) = Null
                     /\ Len(SelectSeq(log', LAMBDA e : e.key = last'.key))
                            = Len(callbacks[last'.key])
                     /\ \A i \in 1..Len(log') : log'[i].val = Null
           /\ \A j \in Keys \ {last'.key} : store'[j] = store[j]
           /\ \A i \in 1..Len(log') : log'[i].key = last'.key]_vars

\* the path render is to use for the fragment hs: without the "#", "/" when empty
PathOf(hs) == IF hs = <<>> \/ Tail(hs) = <<>> THEN <<"/">> ELSE Tail(hs)

\* whether the table has a route for the path: its own key, or the wildcard
HasRoute(t, path) == path \in DOMAIN routesOf(t) \/ <<"*">> \in DOMAIN routesOf(t)

\* the route function the table gives for the path: the exact key, else the wildcard
RouteFor(t, path) ==
    IF path \in DOMAIN routesOf(t) THEN routesOf(t)[path] ELSE routesOf(t)[<<"*">>]

\* the route functions that return a node
ReturnsNode(fn) == fn \in {"home", "about", "notFound"}

\* C8: every execution of render for which the table has the path or "*" invokes
\* exactly the route function of the exact key, else that of "*"; when it returns,
\* the container holds the node of that function and nothing else.
C8_RenderInvokesTheMatchingRoute ==
    \A j \in 1..Len(rlast.renders) :
        LET e == rlast.renders[j]
            h == handlers[e.by]
        IN  HasRoute(h.routes, PathOf(hash))
                => /\ e.invoked = <<RouteFor(h.routes, PathOf(hash))>>
                   /\ (~e.raised /\ j = Len(rlast.renders))
                          => containers[h.app] = <<RouteFor(h.routes, PathOf(hash))>>

\* C9: hashRouter renders once before it returns, every hashchange event runs the
\* render of each registered handler once, and when no event is waiting the container
\* shows the node of the route matching the current hash.
C9_LastHashWins ==
    /\ (rlast.op = "hashRouter" /\ ~rlast.raised) => Len(rlast.renders) = 1
    /\ rlast.op = "hashchange"
           => /\ Len(rlast.renders) = Len(handlers)
              /\ \A i \in 1..Len(handlers) : rlast.renders[i].by = i
    /\ (rlast.op = "hashchange" /\ pending = 0 /\ handlers # <<>>)
           => LET h == handlers[Len(handlers)]
              IN  (HasRoute(h.routes, PathOf(hash))
                     /\ ReturnsNode(RouteFor(h.routes, PathOf(hash))))
                      => containers[h.app] = <<RouteFor(h.routes, PathOf(hash))>>

\* C10: hashRouter called with the id of no element raises, registers no hashchange
\* handler, invokes no route function and changes nothing in the document; a
\* hashchange event runs only the renders of registered handlers.
C10_MissingContainerIsFatal ==
    [][/\ (rlast'.op = "hashRouter" /\ rlast'.arg \notin doc)
           => /\ rlast'.raised
              /\ rlast'.renders = <<>>
              /\ handlers' = handlers
              /\ held' = held
              /\ containers' = containers
              /\ doc' = doc
              /\ hash' = hash
              /\ pending' = pending
       /\ rlast'.op = "hashchange"
           => /\ Len(rlast'.renders) = Len(handlers)
              /\ handlers = <<>> => containers' = containers]_vars

\* C10 witness: hashRouter was called for an id that no element has, in a page in
\* which another element exists.
C10_Witness ==
    /\ rlast.op = "hashRouter"
    /\ rlast.arg \notin doc
    /\ doc # {}
    /\ rlast.raised

(***************************************************************************)
(* Claims on reentrant callbacks, on get and on the registry.              *)
(***************************************************************************)
\* the place of the first callback of Reentrant in the list cbs, 0 when it has none
FirstReentrant(cbs) ==
    IF \E i \in 1..Len(cbs) : cbs[i] \in Reentrant
    THEN CHOOSE i \in 1..Len(cbs) :
             /\ cbs[i] \in Reentrant
             /\ \A j \in 1..(i - 1) : cbs[j] \notin Reentrant
    ELSE 0

Delivery(cb, key, value) == [cb |-> cb, key |-> key, val |-> value]

\* C14: when a callback of k, at place i of k's list, calls set(k, W) while set(k, v)
\* notifies, the pass of the nested set goes over the whole list before the outer
\* pass goes on; the callbacks after place i receive W and then v, v being what they
\* receive last, and the stored value is W when the outer set returns.
C14_NestedPassRunsFirst ==
    LET cbs == callbacks[last.key]
        i == FirstReentrant(cbs)
        n == Len(cbs)
    IN  (/\ last.op = "set"
         /\ last.arg \in SupportedValues
         /\ last.arg # W
         /\ i > 0
         /\ Len(log) >= i
         /\ log[i] = Delivery(cbs[i], last.key, last.arg))
            => /\ Len(log) = i + n + (n - i)
               /\ \A j \in 1..n : log[i + j] = Delivery(cbs[j], last.key, W)
               /\ \A j \in (i + 1)..n :
                      log[i + n + (j - i)] = Delivery(cbs[j], last.key, last.arg)
               /\ GetNow(last.key) = W

\* the stored entries for which get is to return null
NullEntry(ser) ==
    \/ ser.form = "absent"
    \/ ser.form = "text" /\ ser.text \in {"", "null"}
    \/ ser.form = "text" /\ ser.text \in {"abc"}
    \/ ser.form = "env" /\ ser.type \notin {"string", "number", "object"}

\* C15: get(k) changes neither localStorage nor the registry and invokes no callback;
\* it returns null when the entry of k is absent, is the empty string, is the text
\* null, is no JSON text, or is an envelope whose type is none of string, number,
\* object.
C15_GetOnlyReads ==
    [][last'.op = "get"
        => /\ store' = store
           /\ callbacks' = callbacks
           /\ cbKeys' = cbKeys
           /\ backend' = backend
           /\ log' = <<>>
           /\ ~last'.raised
           /\ NullEntry(store[last'.key]) => last'.ret = Null]_vars

\* C15 witness: get was called on a key that has a callback and whose entry is an
\* envelope of a type set never writes.
C15_Witness ==
    /\ last.op = "get"
    /\ store[last.key].form = "env"
    /\ store[last.key].type = "boolean"
    /\ callbacks[last.key] # <<>>
    /\ last.ret = Null

\* cbs is the beginning of the list ext
IsPrefix(cbs, ext) == Len(cbs) <= Len(ext) /\ SubSeq(ext, 1, Len(cbs)) = cbs

\* C16: the list of each key only grows at its end: onChange appends one entry to the
\* list of its key and nothing else changes the registry; set, get, update, remove and
\* clear leave it as it is, so that every callback registered, before a clear() or
\* not, is invoked by a later successful set of its key.
C16_RegistryOnlyGrows ==
    [][/\ \A k \in Keys : IsPrefix(callbacks[k], callbacks'[k])
       /\ last'.op = "onChange"
           => /\ callbacks'[last'.key] = Append(callbacks[last'.key], last'.fn)
              /\ \A k \in Keys \ {last'.key} : callbacks'[k] = callbacks[k]
       /\ last'.op \in {"set", "get", "update", "remove", "clear"}
           => callbacks' = callbacks
       /\ (last'.op = "set" /\ last'.arg \in SupportedValues)
           => \A i \in 1..Len(callbacks[last'.key]) :
                  \E j \in 1..Len(log') :
                      log'[j] = Delivery(callbacks[last'.key][i], last'.key, last'.arg)]_vars

(***************************************************************************)
(* Claims on failing renders.                                              *)
(***************************************************************************)
\* the table has the path as a key of its own, with a function that returns a node
RouteExists(t, path) == path \in DOMAIN routesOf(t) /\ ReturnsNode(routesOf(t)[path])

\* the table gives no function for the path, or one that raises
NoRouteOrRaises(t, path) ==
    \/ ~HasRoute(t, path)
    \/ HasRoute(t, path) /\ RouteFor(t, path) = "broken"

\* C18: a render for which the table has neither the path nor "*", or whose route
\* function raises, raises to its caller and leaves the container empty; hashRouter
\* on an existing container registers its handler also when its first render raises,
\* and a later hashchange event runs that handler, which shows the node of a route
\* that exists.
C18_FailedRenderKeepsTheHandler ==
    [][/\ (rlast'.op = "hashRouter" /\ rlast'.arg \in doc)
           => /\ Len(handlers') = Len(handlers) + 1
              /\ handlers'[Len(handlers')].app = rlast'.arg
              /\ SubSeq(handlers', 1, Len(handlers)) = handlers
       /\ rlast'.op = "hashchange"
           => /\ handlers' = handlers
              /\ Len(rlast'.renders) = Len(handlers)
              /\ \A i \in 1..Len(handlers) : rlast'.renders[i].by = i
       /\ \A j \in 1..Len(rlast'.renders) :
              LET e == rlast'.renders[j]
                  h == handlers'[e.by]
              IN  /\ NoRouteOrRaises(h.routes, PathOf(hash'))
                      => /\ e.raised
                         /\ rlast'.op \in {"hashRouter", "render"} => rlast'.raised
                         /\ j = Len(rlast'.renders) => containers'[h.app] = <<>>
                  /\ (rlast'.op = "hashchange" /\ RouteExists(h.routes, PathOf(hash')))
                      => /\ ~e.raised
                         /\ j = Len(rlast'.renders)
                                => containers'[h.app] = <<routesOf(h.routes)[PathOf(hash')]>>]_vars

\* C18 witness: the first render of hashRouter raised (its caller got no render
\* function), and a later hashchange event has rendered a route that exists.
C18_Witness ==
    /\ rlast.op = "hashchange"
    /\ handlers # <<>>
    /\ held = {}
    /\ RouteExists(handlers[1].routes, PathOf(hash))
    /\ ~rlast.renders[1].raised
    /\ containers[handlers[1].app] = <<routesOf(handlers[1].routes)[PathOf(hash)]>>

(***************************************************************************)
(* Claims on elem.                                                         *)
(***************************************************************************)
\* the leaves of a children value, depth first and left to right
RECURSIVE LeavesOf(_)
LeavesOf(c) ==
    IF c.k # "array" THEN <<c>>
    ELSE IF c.items = <<>> THEN <<>>
    ELSE LeavesOf(Head(c.items)) \o LeavesOf(Arr(Tail(c.items)))

\* the node appended for a leaf: the element itself, a text node for a text or a number
NodeOf(leaf) ==
    IF leaf.k = "element" THEN ElementNode(leaf.s) ELSE TextNode(leaf.s)

NodesOf(c) == [i \in 1..Len(LeavesOf(c)) |-> NodeOf(LeavesOf(c)[i])]

\* every leaf is a text, a number or an element
ValidChildren(c) ==
    \A i \in 1..Len(LeavesOf(c)) : LeavesOf(c)[i].k \in {"string", "number", "element"}

\* no node is in the sequence twice
NoRepeat(nodes) ==
    \A i, j \in 1..Len(nodes) : (i # j /\ nodes[i].kind = "element") => nodes[i] # nodes[j]

GivenProps(a) == IF a.props.k = "undefined" THEN <<>> ELSE a.props.props

\* the step under way is a click on the anchor
IsClick ==
    /\ clast'.op = "click"
    /\ anchor.built
    /\ pending' >= pending
    /\ handlers' = handlers
    /\ rlast' = rlast

\* C11: whatever props the anchor was built from, a click on it prevents the default
\* navigation and makes "#" followed by h the fragment, and a change of the fragment
\* queues the hashchange event that makes an installed router render.
C11_ClickNavigatesByHash ==
    [][IsClick
        => /\ clast'.prevented
           /\ hash' = <<"#">> \o anchor.href
           /\ hash' # hash => pending' = pending + 1]_vars

\* the class Link is to give: the caller's class and the active class, joined by one
\* space, empty parts left out
ExpectedClass(class, active) ==
    IF class = <<>> THEN (IF active THEN <<"router-active">> ELSE <<>>)
    ELSE IF active THEN class \o <<" ", "router-active">>
    ELSE class

\* the class string the caller gave in props, "" when there is none
CallerClass(a) ==
    IF getProp(GivenProps(a), "class").t = "undefined" THEN <<>>
    ELSE getProp(GivenProps(a), "class").s

\* C12: the class of the anchor is the caller's class joined with "router-active",
\* the latter present exactly when the fragment without "#" was h when Link was
\* called; a later change of the fragment leaves the anchor as it was built.
C12_ActiveClassAtConstruction ==
    [][/\ anchor'.built
           => anchor'.el.className
                  = ExpectedClass(CallerClass(anchor'),
                                  slice1(anchor'.hashThen) = anchor'.href)
       /\ (anchor.built /\ clast'.op # "link") => anchor' = anchor]_vars

\* the tokens of a string
Tokens(str) == {str[i] : i \in 1..Len(str)}

\* C17: when the render made last by the router took the route of the table's own
\* key h, an anchor built by Link at that fragment with href h, from props that set no
\* className, has the class "router-active"; so for "/" shown for the empty fragment.
C17_ShownRouteHasActiveLink ==
    (/\ anchor.built
     /\ anchor.hashThen = hash
     /\ handlers # <<>>
     /\ pending = 0
     /\ anchor.href = PathOf(hash)
     /\ anchor.href \in DOMAIN routesOf(handlers[1].routes)
     /\ getProp(GivenProps(anchor), "className").t = "undefined")
        => "router-active" \in Tokens(anchor.el.className)

====
